---- MODULE Spec2Model ----
(***************************************************************************)
(* A model of main.py of digit-recognizer: the two datasets' __getitem__,  *)
(* the batch loaders main() builds, the loops train(), test(), predict()   *)
(* and the orchestration in main().                                        *)
(*                                                                         *)
(* Abstractions.  An image is identified by the row it was decoded from    *)
(* (its pixels are a function of the row).  The parameters of Net are      *)
(* abstracted to the number of optimizer steps taken, and the forward pass *)
(* to a fixed function of (parameters, image) in evaluation mode and to an *)
(* arbitrary class in training mode (dropout draws a random mask).  Loss   *)
(* values are not modelled.                                                *)
(***************************************************************************)
EXTENDS Integers, Sequences, FiniteSets, TLC

\* ---------------------------------------------------------------- bounds
MaxN == 3          \* rows of train.csv
MaxU == 3          \* rows of test.csv
MaxB == 2          \* --batch-size and --test-batch-size
MaxE == 2          \* --epochs
MaxK == 2          \* --log-interval
MaxM == 3          \* rows of the validation set handed to test() on its own
MaxL == 3          \* rows of the dataset handed to __getitem__ on its own

\* ------------------------------------------------------ program constants
Height == 28
Width == 28
NumClasses == 10
PixelCount == Height * Width

\* ------------------------------------------------------------- variables
VARIABLES
    args,          \* the parsed command line
    train_csv,     \* contents of train.csv
    test_csv,      \* contents of test.csv
    train_set,     \* main(): the train partition (a table)
    test_set,      \* main(): the validation partition (a table)
    training,      \* Net.training, the mode flag of the model
    params,        \* the parameters of Net (number of optimizer steps)
    epoch,         \* main(): the loop variable of the epoch loop
    pc,            \* the control point
    err,           \* the exception that ended the run, or "none"
    order,         \* the running loader iterator: the sampler's index order
    pos,           \* the running loader iterator: indices already handed out
    batch_idx,     \* the enumerate() counter of the running loop
    loaderPass,    \* history: the batches of the current loader pass
    correct,       \* test(): the counter of correct predictions
    accuracy,      \* test(): what the final print reports
    report,        \* train(): the progress report of the last batch, if any
    processed,     \* history: training samples processed in this epoch
    lastForward,   \* history: loop and mode of the last forward pass
    predictions,   \* predict(): the list of predictions
    output_file,   \* contents of submission.csv, or NoFile
    completed,     \* history: passes completed so far
    getArgs,       \* a direct call of __getitem__: its arguments
    getResult      \* a direct call of __getitem__: its outcome

vars == <<args, train_csv, test_csv, train_set, test_set, training, params,
          epoch, pc, err, order, pos, batch_idx, loaderPass, correct,
          accuracy, report, processed, lastForward, predictions, output_file,
          completed, getArgs, getResult>>

inputVars == <<args, train_csv, test_csv>>
getVars == <<getArgs, getResult>>

NoFile == [written |-> FALSE, rows |-> <<>>]
None == [kind |-> "none"]
NoPass == [loader |-> "none", n |-> 0, B |-> 1, shuffle |-> FALSE,
           batches |-> <<>>, done |-> FALSE]
NoneCompleted == [train |-> 0, test |-> 0, predict |-> FALSE]

Min(a, b) == IF a < b THEN a ELSE b

\* ------------------------------------------------------------- datasets
\* A table: its number of columns and its rows.  A row carries the identity
\* of the source row (which determines its pixels) and, in a labeled table,
\* the value of column 0.
LabelOf(id) == (id * 3) % NumClasses

LabeledTable(n, ncols) ==
    [ncols |-> ncols, rows |-> [k \in 1..n |-> [id |-> k, label |-> LabelOf(k)]]]

UnlabeledTable(n, ncols) ==
    [ncols |-> ncols, rows |-> [k \in 1..n |-> [id |-> k]]]

\* len(self.data.index)
DatasetLen(ds) == Len(ds.rows)

\* Positional indexing of numpy arrays and of DataFrame.iloc with an
\* integer: item must lie in [-length, length); a negative item counts from
\* the end.
IndexInRange(item, length) == item >= 0 - length /\ item < length

\* Faulty variant: a negative item counted from the front (-1 is row 0).
RowPosition_mirrored(item, length) == IF item < 0 THEN 0 - item - 1 ELSE item

RowPosition(item, length) == IF item < 0 THEN item + length ELSE item

\* np.reshape(image_data, (28, 28)) accepts exactly 28 * 28 values.
\* Faulty variant: np.resize in place of np.reshape accepts any width.
Reshape_resize(firstCol, lastCol) == TRUE

Reshape(firstCol, lastCol) == lastCol - firstCol + 1 = PixelCount

\* PandasImageDataset.__getitem__: label from column 0, pixels from .iloc[item, 1:]
PandasImageDataset_getitem(ds, item) ==
    IF ~IndexInRange(item, DatasetLen(ds))
    THEN [status |-> "IndexError"]
    ELSE LET row == ds.rows[RowPosition(item, DatasetLen(ds)) + 1]
             firstCol == 1
             lastCol == ds.ncols - 1
         IN  IF ~Reshape(firstCol, lastCol)
             THEN [status |-> "ValueError"]
             ELSE [status |-> "ok",
                   image |-> [id |-> row.id, firstCol |-> firstCol, lastCol |-> lastCol],
                   labelCol |-> 0,
                   label |-> row.label]

\* PredictCsvDataset.__getitem__: pixels from .iloc[item], no label
PredictCsvDataset_getitem(ds, item) ==
    IF ~IndexInRange(item, DatasetLen(ds))
    THEN [status |-> "IndexError"]
    ELSE LET row == ds.rows[RowPosition(item, DatasetLen(ds)) + 1]
             firstCol == 0
             lastCol == ds.ncols - 1
         IN  IF ~Reshape(firstCol, lastCol)
             THEN [status |-> "ValueError"]
             ELSE [status |-> "ok",
                   image |-> [id |-> row.id, firstCol |-> firstCol, lastCol |-> lastCol]]

\* ---------------------------------------------------------------- model
\* The class of largest log-probability Net.forward gives an image in
\* evaluation mode: a function of the parameters and the image.
Argmax(p, image) == (p * 3 + image.id * 7) % NumClasses

\* model(data) followed by output.max(1, keepdim=True)[1] on a batch: the
\* predictions it can give.  Dropout is active in training mode only.
ForwardBatch(p, images, mode) ==
    IF mode
    THEN [1..Len(images) -> 0..(NumClasses - 1)]
    ELSE {[k \in 1..Len(images) |-> Argmax(p, images[k])]}

\* -------------------------------------------------------------- loaders
\* Index orders a sampler can draw over a dataset of n items (0-based):
\* RandomSampler draws a permutation, SequentialSampler gives range(n).
Permutations0(n) ==
    {f \in [1..n -> 0..(n - 1)] : \A i, j \in 1..n : i # j => f[i] # f[j]}

\* Faulty variant: a random sampler that draws with replacement.
Sampler_replacement(n, shuffle) ==
    IF shuffle THEN [1..n -> 0..(n - 1)] ELSE {[k \in 1..n |-> k - 1]}

Sampler(n, shuffle) ==
    IF shuffle THEN Permutations0(n) ELSE {[k \in 1..n |-> k - 1]}

\* BatchSampler with drop_last=False: the next at most B indices.
NextBatch(ord, p, B) == SubSeq(ord, p + 1, Min(p + B, Len(ord)))

StartPass(name, n, B, shuffle) ==
    [loader |-> name, n |-> n, B |-> B, shuffle |-> shuffle,
     batches |-> <<>>, done |-> n = 0]

RecordBatch(lp, batch, exhausted) ==
    [lp EXCEPT !.batches = Append(@, batch), !.done = exhausted]

\* The shuffle arguments of the three DataLoader constructions in main().
TrainLoaderShuffle == TRUE
TestLoaderShuffle == TRUE
\* Faulty variant: the submission loader shuffles like the other two.
SubmissionLoaderShuffle_on == TRUE

SubmissionLoaderShuffle == FALSE

\* ---------------------------------------------------------- mode switches
\* model.train() at the top of train(), model.eval() at the top of test()
\* and of predict(): the mode after the call, given the mode before it.
train_mode(current) == TRUE
test_mode(current) == FALSE
\* Faulty variant: predict() without its model.eval().
predict_mode_kept(current) == current

predict_mode(current) == FALSE

\* Faulty variant: a comparison that stops one sample short of the batch.
CountCorrect_short(pred, target) ==
    Cardinality({k \in 1..(Len(pred) - 1) : pred[k] = target[k]})

\* pred.eq(target.view_as(pred)).sum().item()
CountCorrect(pred, target) ==
    Cardinality({k \in 1..Len(pred) : pred[k] = target[k]})

\* Faulty variant: range(1, args.epochs) runs one epoch short.
EpochsLeft_short(done, epochs) == done < epochs - 1

\* for epoch in range(1, args.epochs + 1): whether another epoch follows
\* after `done` epochs.
EpochsLeft(done, epochs) == done < epochs

\* ---------------------------------------------------------------- split
\* Faulty variants: the cut rounded up, and rounded to nearest.
TrainSize_ceil(n) == (n * 9 + 9) \div 10

TrainSize_round(n) == (n * 9 + 5) \div 10

\* int(len(df.index) * 0.9).  The double nearest 0.9 exceeds 9/10 by less
\* than 2^-54, so for every table that fits in memory the product truncates
\* to the integer part of 9n/10.
TrainSize(n) == (n * 9) \div 10


\* ----------------------------------------------------------- main(): inputs
\* Column counts of (train.csv, test.csv): the well-formed shape, and one
\* malformed shape of each file.
TableShapes ==
    {<<PixelCount + 1, PixelCount>>,
     <<PixelCount + 2, PixelCount>>,
     <<PixelCount + 1, PixelCount - 1>>}

Args ==
    [batch_size : 1..MaxB, test_batch_size : 1..MaxB, epochs : 0..MaxE,
     log_interval : 1..MaxK, use_cuda : BOOLEAN]

\* The state before main() reads train.csv.
Init ==
    /\ args \in Args
    /\ \E n \in 0..MaxN, u \in 0..MaxU, shape \in TableShapes :
          /\ train_csv = LabeledTable(n, shape[1])
          /\ test_csv = UnlabeledTable(u, shape[2])
    /\ train_set = LabeledTable(0, 0)
    /\ test_set = LabeledTable(0, 0)
    /\ training = TRUE
    /\ params = 0
    /\ epoch = 0
    /\ pc = "start"
    /\ err = "none"
    /\ order = <<>>
    /\ pos = 0
    /\ batch_idx = 0
    /\ loaderPass = NoPass
    /\ correct = 0
    /\ accuracy = None
    /\ report = None
    /\ processed = 0
    /\ lastForward = None
    /\ predictions = <<>>
    /\ output_file = NoFile
    /\ completed = NoneCompleted
    /\ getArgs = None
    /\ getResult = None

\* An exception propagates out of main(): nothing else changes.
Raise(e) ==
    /\ pc' = "error"
    /\ err' = e
    /\ UNCHANGED <<inputVars, train_set, test_set, training, params, epoch,
                   order, pos, batch_idx, loaderPass, correct, accuracy,
                   report, processed, lastForward, predictions, output_file,
                   completed, getVars>>

\* The first exception among the samples a loader fetched, or "none".
FirstError(items) ==
    LET bad == {k \in 1..Len(items) : items[k].status # "ok"}
    IN  IF bad = {} THEN "none"
        ELSE items[CHOOSE k \in bad : \A j \in bad : k <= j].status

\* ------------------------------------------------------------ main(): setup
\* Lines 200-238: read train.csv, shuffle it, cut it at int(0.9 * n), build
\* the datasets, the loaders, the model (a new Net is in training mode) and
\* the optimizer.
main_setup ==
    /\ pc = "start"
    /\ \E perm \in Permutations0(Len(train_csv.rows)) :
          LET n == Len(train_csv.rows)
              df == [k \in 1..n |-> train_csv.rows[perm[k] + 1]]
              train_size == TrainSize(n)
          IN  /\ train_set' = [ncols |-> train_csv.ncols,
                               rows |-> SubSeq(df, 1, train_size)]
              /\ test_set' = [ncols |-> train_csv.ncols,
                              rows |-> SubSeq(df, train_size + 1, n)]
    /\ training' = TRUE
    /\ params' = 0
    /\ pc' = "epoch_loop"
    /\ UNCHANGED <<inputVars, epoch, err, order, pos, batch_idx, loaderPass,
                   correct, accuracy, report, processed, lastForward,
                   predictions, output_file, completed, getVars>>

\* ------------------------------------------------------------------ train()
\* The epoch loop enters another epoch and calls train(): model.train(),
\* then the iterator of train_loader (shuffle=True) draws its order.
train_begin ==
    /\ pc = "epoch_loop"
    /\ EpochsLeft(epoch, args.epochs)
    /\ epoch' = epoch + 1
    /\ training' = train_mode(training)
    /\ LET n == DatasetLen(train_set)
       IN  /\ order' \in Sampler(n, TrainLoaderShuffle)
           /\ loaderPass' = StartPass("train", n, args.batch_size,
                                      TrainLoaderShuffle)
           /\ pc' = IF n = 0 THEN "test_call" ELSE "train_loop"
           /\ completed' = IF n = 0 THEN [completed EXCEPT !.train = @ + 1]
                           ELSE completed
    /\ pos' = 0
    /\ batch_idx' = 0
    /\ processed' = 0
    /\ report' = None
    /\ UNCHANGED <<inputVars, train_set, test_set, params, err, correct,
                   accuracy, lastForward, predictions, output_file, getVars>>

\* One iteration of the loop of train(): fetch a batch, forward, backward,
\* optimizer step, and the progress report when batch_idx % log_interval == 0.
train_batch ==
    /\ pc = "train_loop"
    /\ LET batch == NextBatch(order, pos, args.batch_size)
           items == [k \in 1..Len(batch) |->
                        PandasImageDataset_getitem(train_set, batch[k])]
           exhausted == pos + Len(batch) >= Len(order)
       IN  IF FirstError(items) # "none"
           THEN Raise(FirstError(items))
           ELSE /\ lastForward' = [kind |-> "forward", loop |-> "train",
                                   training |-> training]
                /\ params' = params + 1
                /\ processed' = processed + Len(batch)
                /\ report' = IF batch_idx % args.log_interval = 0
                             THEN [kind |-> "report",
                                   batch_idx |-> batch_idx,
                                   samples |-> (batch_idx + 1) * args.batch_size,
                                   total |-> DatasetLen(train_set)]
                             ELSE None
                /\ batch_idx' = batch_idx + 1
                /\ pos' = pos + Len(batch)
                /\ loaderPass' = RecordBatch(loaderPass, batch, exhausted)
                /\ pc' = IF exhausted THEN "test_call" ELSE "train_loop"
                /\ completed' = IF exhausted
                                THEN [completed EXCEPT !.train = @ + 1]
                                ELSE completed
                /\ UNCHANGED <<inputVars, train_set, test_set, training, epoch,
                               err, order, correct, accuracy, predictions,
                               output_file, getVars>>

\* ------------------------------------------------------------------- test()
\* test() is entered: model.eval(), the counters are zeroed, and the
\* iterator of test_loader (shuffle=True) draws its order.
test_begin ==
    /\ pc = "test_call"
    /\ training' = test_mode(training)
    /\ correct' = 0
    /\ LET m == DatasetLen(test_set)
       IN  /\ order' \in Sampler(m, TestLoaderShuffle)
           /\ loaderPass' = StartPass("test", m, args.test_batch_size,
                                      TestLoaderShuffle)
           /\ pc' = IF m = 0 THEN "test_report" ELSE "test_loop"
    /\ pos' = 0
    /\ UNCHANGED <<inputVars, train_set, test_set, params, epoch, err,
                   batch_idx, accuracy, report, processed, lastForward,
                   predictions, output_file, completed, getVars>>

\* One iteration of the loop of test(): fetch a batch, forward, and add the
\* number of samples whose prediction equals the target to correct.
test_batch ==
    /\ pc = "test_loop"
    /\ LET batch == NextBatch(order, pos, args.test_batch_size)
           items == [k \in 1..Len(batch) |->
                        PandasImageDataset_getitem(test_set, batch[k])]
           exhausted == pos + Len(batch) >= Len(order)
       IN  IF FirstError(items) # "none"
           THEN Raise(FirstError(items))
           ELSE /\ \E pred \in ForwardBatch(params,
                                  [k \in 1..Len(batch) |-> items[k].image],
                                  training) :
                      correct' = correct + CountCorrect(pred,
                          [k \in 1..Len(batch) |-> items[k].label])
                /\ lastForward' = [kind |-> "forward", loop |-> "test",
                                   training |-> training]
                /\ pos' = pos + Len(batch)
                /\ loaderPass' = RecordBatch(loaderPass, batch, exhausted)
                /\ pc' = IF exhausted THEN "test_report" ELSE "test_loop"
                /\ UNCHANGED <<inputVars, train_set, test_set, training,
                               params, epoch, err, order, batch_idx, accuracy,
                               report, processed, predictions, output_file,
                               completed, getVars>>

\* Lines 138-142: the divisions by len(test_loader.dataset) and the print.
test_report ==
    /\ pc = "test_report"
    /\ IF DatasetLen(test_set) = 0
       THEN Raise("ZeroDivisionError")
       ELSE /\ accuracy' = [kind |-> "accuracy", correct |-> correct,
                            total |-> DatasetLen(test_set)]
            /\ completed' = [completed EXCEPT !.test = @ + 1]
            /\ pc' = "epoch_loop"
            /\ UNCHANGED <<inputVars, train_set, test_set, training, params,
                           epoch, err, order, pos, batch_idx, loaderPass,
                           correct, report, processed, lastForward,
                           predictions, output_file, getVars>>

\* ---------------------------------------------------------------- predict()
\* The epoch loop is over and predict() is entered: model.eval(), an empty
\* list, and the iterator of submission_loader (shuffle=False).
predict_begin ==
    /\ pc = "epoch_loop"
    /\ ~EpochsLeft(epoch, args.epochs)
    /\ training' = predict_mode(training)
    /\ predictions' = <<>>
    /\ LET u == DatasetLen(test_csv)
       IN  /\ order' \in Sampler(u, SubmissionLoaderShuffle)
           /\ loaderPass' = StartPass("submission", u, args.test_batch_size,
                                      SubmissionLoaderShuffle)
           /\ pc' = IF u = 0 THEN "write" ELSE "predict_loop"
           /\ completed' = IF u = 0 THEN [completed EXCEPT !.predict = TRUE]
                           ELSE completed
    /\ pos' = 0
    /\ batch_idx' = 0
    /\ UNCHANGED <<inputVars, train_set, test_set, params, epoch, err,
                   correct, accuracy, report, processed, lastForward,
                   output_file, getVars>>

\* One iteration of the loop of predict(): fetch a batch, forward (the batch
\* is not moved to the device, so the forward pass raises when the model is
\* on the GPU), and extend the list by the batch's predictions.
predict_batch ==
    /\ pc = "predict_loop"
    /\ LET batch == NextBatch(order, pos, args.test_batch_size)
           items == [k \in 1..Len(batch) |->
                        PredictCsvDataset_getitem(test_csv, batch[k])]
           exhausted == pos + Len(batch) >= Len(order)
       IN  IF FirstError(items) # "none"
           THEN Raise(FirstError(items))
           ELSE IF args.use_cuda
           THEN Raise("RuntimeError")
           ELSE /\ \E pred_batch \in ForwardBatch(params,
                                  [k \in 1..Len(batch) |-> items[k].image],
                                  training) :
                      predictions' = predictions \o pred_batch
                /\ lastForward' = [kind |-> "forward", loop |-> "predict",
                                   training |-> training]
                /\ batch_idx' = batch_idx + 1
                /\ pos' = pos + Len(batch)
                /\ loaderPass' = RecordBatch(loaderPass, batch, exhausted)
                /\ pc' = IF exhausted THEN "write" ELSE "predict_loop"
                /\ completed' = IF exhausted
                                THEN [completed EXCEPT !.predict = TRUE]
                                ELSE completed
                /\ UNCHANGED <<inputVars, train_set, test_set, training,
                               params, epoch, err, order, correct, accuracy,
                               report, processed, output_file, getVars>>

\* Lines 247-250: the predictions become a table whose index is shifted to
\* start at 1 and named ImageId, and the table is written to submission.csv.
main_write ==
    /\ pc = "write"
    /\ LET pred_df == [k \in 0..(Len(predictions) - 1) |->
                          [index |-> k, Label |-> predictions[k + 1]]]
       IN  output_file' =
               [written |-> TRUE,
                rows |-> [k \in 1..Len(predictions) |->
                             [ImageId |-> pred_df[k - 1].index + 1,
                              Label |-> pred_df[k - 1].Label]]]
    /\ pc' = "done"
    /\ UNCHANGED <<inputVars, train_set, test_set, training, params, epoch,
                   err, order, pos, batch_idx, loaderPass, correct, accuracy,
                   report, processed, lastForward, predictions, completed,
                   getVars>>

Next ==
    \/ main_setup
    \/ train_begin
    \/ train_batch
    \/ test_begin
    \/ test_batch
    \/ test_report
    \/ predict_begin
    \/ predict_batch
    \/ main_write

Spec == Init /\ [][Next]_vars


\* ------------------------------------------------- test() called on its own
\* test() as a function of its arguments: any validation set of up to MaxM
\* rows with any labels, any evaluation batch size, whatever mode and
\* parameters the caller left behind.
LabelChoices == {1, 4, 7}

ValidationSets ==
    UNION {{[ncols |-> PixelCount + 1,
             rows |-> [k \in 1..m |-> [id |-> k, label |-> lab[k]]]] :
               lab \in [1..m -> LabelChoices]} : m \in 0..MaxM}

InitTest ==
    /\ args \in [batch_size : {1}, test_batch_size : 1..MaxM, epochs : {1},
                 log_interval : {1}, use_cuda : {FALSE}]
    /\ train_csv = LabeledTable(0, PixelCount + 1)
    /\ test_csv = UnlabeledTable(0, PixelCount)
    /\ train_set = LabeledTable(0, PixelCount + 1)
    /\ test_set \in ValidationSets
    /\ training \in BOOLEAN
    /\ params \in 0..1
    /\ epoch = 1
    /\ pc = "test_call"
    /\ err = "none"
    /\ order = <<>>
    /\ pos = 0
    /\ batch_idx = 0
    /\ loaderPass = NoPass
    /\ correct = 0
    /\ accuracy = None
    /\ report = None
    /\ processed = 0
    /\ lastForward = None
    /\ predictions = <<>>
    /\ output_file = NoFile
    /\ completed = NoneCompleted
    /\ getArgs = None
    /\ getResult = None

NextTest ==
    \/ test_begin
    \/ test_batch
    \/ test_report

SpecTest == InitTest /\ [][NextTest]_vars

\* ------------------------------------------ __getitem__ called on its own
\* dataset[item] for any integer item, on datasets of up to MaxL rows whose
\* table has the right number of columns, one less, or one more.
GetCalls ==
    {[kind |-> "call", class |-> "PandasImageDataset",
      ds |-> LabeledTable(len, PixelCount + 1 + d), item |-> i] :
        len \in 0..MaxL, d \in {0 - 1, 0, 1}, i \in (0 - MaxL - 2)..(MaxL + 2)}
    \cup
    {[kind |-> "call", class |-> "PredictCsvDataset",
      ds |-> UnlabeledTable(len, PixelCount + d), item |-> i] :
        len \in 0..MaxL, d \in {0 - 1, 0, 1}, i \in (0 - MaxL - 2)..(MaxL + 2)}

InitGet ==
    /\ getArgs \in GetCalls
    /\ getResult = None
    /\ pc = "get_call"
    /\ args = [batch_size |-> 1, test_batch_size |-> 1, epochs |-> 0,
               log_interval |-> 1, use_cuda |-> FALSE]
    /\ train_csv = LabeledTable(0, PixelCount + 1)
    /\ test_csv = UnlabeledTable(0, PixelCount)
    /\ train_set = LabeledTable(0, PixelCount + 1)
    /\ test_set = LabeledTable(0, PixelCount + 1)
    /\ training = TRUE
    /\ params = 0
    /\ epoch = 0
    /\ err = "none"
    /\ order = <<>>
    /\ pos = 0
    /\ batch_idx = 0
    /\ loaderPass = NoPass
    /\ correct = 0
    /\ accuracy = None
    /\ report = None
    /\ processed = 0
    /\ lastForward = None
    /\ predictions = <<>>
    /\ output_file = NoFile
    /\ completed = NoneCompleted

getitem_call ==
    /\ pc = "get_call"
    /\ getResult' = IF getArgs.class = "PandasImageDataset"
                    THEN PandasImageDataset_getitem(getArgs.ds, getArgs.item)
                    ELSE PredictCsvDataset_getitem(getArgs.ds, getArgs.item)
    /\ pc' = "returned"
    /\ UNCHANGED <<inputVars, train_set, test_set, training, params, epoch,
                   err, order, pos, batch_idx, loaderPass, correct, accuracy,
                   report, processed, lastForward, predictions, output_file,
                   completed, getArgs>>

NextGet == getitem_call

SpecGet == InitGet /\ [][NextGet]_vars


\* =============================================================== properties
RECURSIVE Flatten(_)
Flatten(seqs) ==
    IF seqs = <<>> THEN <<>> ELSE Head(seqs) \o Flatten(Tail(seqs))

RECURSIVE SumLen(_)
SumLen(seqs) ==
    IF seqs = <<>> THEN 0 ELSE Len(Head(seqs)) + SumLen(Tail(seqs))

Occurrences(rows, id) == Cardinality({k \in 1..Len(rows) : rows[k].id = id})

\* C1: once submission.csv is written it has one row per row of test.csv,
\* its ImageId column counts 1, 2, ..., n from the top, and the Label of row
\* k is the model's evaluation-mode argmax for the k-th row of test.csv,
\* whatever the evaluation batch size.
PredictionTableInInputOrder ==
    output_file.written =>
        /\ Len(output_file.rows) = DatasetLen(test_csv)
        /\ \A k \in 1..Len(output_file.rows) :
              /\ output_file.rows[k].ImageId = k
              /\ output_file.rows[k].Label =
                     Argmax(params, [id |-> test_csv.rows[k].id])

\* A table of three predictions, made in two batches, after training.
PredictionTableWritten ==
    /\ output_file.written
    /\ Len(output_file.rows) = 3
    /\ args.test_batch_size = 2
    /\ Len(loaderPass.batches) = 2
    /\ params > 0

\* C2: after the split the two partitions together have n rows, the train
\* partition has floor(0.9 n) of them, and every row of train.csv is in
\* exactly one place of exactly one partition, whatever permutation was drawn.
SplitIsPartition ==
    pc # "start" =>
        LET n == Len(train_csv.rows)
            t == DatasetLen(train_set)
        IN  /\ t + DatasetLen(test_set) = n
            /\ 10 * t <= 9 * n
            /\ 9 * n < 10 * (t + 1)
            /\ \A id \in 1..n :
                  Occurrences(train_set.rows, id)
                      + Occurrences(test_set.rows, id) = 1

\* A split of three rows under a permutation that moved the first row into
\* the validation partition.
SplitShuffled ==
    /\ pc # "start"
    /\ Len(train_csv.rows) = 3
    /\ DatasetLen(train_set) = 2
    /\ test_set.rows[1].id = 1

\* C3: a complete pass of any of the three loaders hands out every index of
\* its dataset exactly once (in dataset order when it does not shuffle), the
\* batch sizes add up to the dataset length, and every batch but the last
\* has exactly B indices, the last between 1 and B.
LoaderPassCoversDataset ==
    loaderPass.done =>
        LET b == loaderPass.batches
            flat == Flatten(b)
        IN  /\ SumLen(b) = loaderPass.n
            /\ \A i \in 0..(loaderPass.n - 1) :
                  Cardinality({k \in 1..Len(flat) : flat[k] = i}) = 1
            /\ ~loaderPass.shuffle => flat = [k \in 1..loaderPass.n |-> k - 1]
            /\ \A j \in 1..Len(b) :
                  /\ j < Len(b) => Len(b[j]) = loaderPass.B
                  /\ Len(b[j]) >= 1
                  /\ Len(b[j]) <= loaderPass.B

\* A complete pass of two batches, the second smaller than B.
LoaderPassWithShortLastBatch ==
    /\ loaderPass.done
    /\ loaderPass.B = 2
    /\ Len(loaderPass.batches) = 2
    /\ Len(loaderPass.batches[2]) = 1

\* The number of validation samples whose evaluation-mode argmax is their label.
TrueCorrect ==
    Cardinality({k \in 1..DatasetLen(test_set) :
        Argmax(params, [id |-> test_set.rows[k].id]) = test_set.rows[k].label})

\* C4: when the loop of test() has run over the whole validation set,
\* correct is the number of samples whose argmax equals their label, for any
\* batch size and batch order; it stays within 0..m, and the accuracy
\* reported is that count over m.
EvaluationCountsCorrect ==
    /\ correct >= 0
    /\ correct <= DatasetLen(test_set)
    /\ pc = "test_report" => correct = TrueCorrect
    /\ accuracy.kind = "accuracy" =>
          /\ accuracy.correct = TrueCorrect
          /\ accuracy.total = DatasetLen(test_set)
          /\ accuracy.total > 0

\* An evaluation of three samples in two batches, in an order other than the
\* dataset's, with some predictions right and some wrong.
EvaluationReported ==
    /\ accuracy.kind = "accuracy"
    /\ accuracy.total = 3
    /\ accuracy.correct \in {1, 2}
    /\ Len(loaderPass.batches) = 2
    /\ order[1] # 0

\* C5: submission.csv is written only by a run that completed every
\* configured epoch (a training pass and an evaluation pass each) and the
\* inference pass and that raised nothing; a run that ended in an error has
\* written no file, and a run that ended normally has written it.
NoPartialFailure ==
    /\ output_file.written =>
          /\ completed.train = args.epochs
          /\ completed.test = args.epochs
          /\ completed.predict
          /\ Len(predictions) = DatasetLen(test_csv)
          /\ err = "none"
          /\ pc = "done"
    /\ pc = "error" => ~output_file.written /\ err # "none"
    /\ pc = "done" => output_file.written

\* A run of two epochs that wrote its file.
RunCompleted ==
    /\ pc = "done"
    /\ output_file.written
    /\ args.epochs = 2
    /\ completed.test = 2
    /\ Len(predictions) >= 1

\* C8: every forward pass in train() runs in training mode and every forward
\* pass in test() or predict() runs in evaluation mode, for any number of
\* epochs.
ModeMatchesLoop ==
    lastForward.kind = "forward" =>
        (lastForward.training <=> lastForward.loop = "train")

\* A training forward pass in the second epoch, after test() had switched
\* the model to evaluation mode.
TrainingAfterEvaluation ==
    /\ lastForward.kind = "forward"
    /\ lastForward.loop = "train"
    /\ epoch = 2
    /\ completed.test = 1

\* C9: in train() a report is printed exactly for the batches whose index
\* is a multiple of the log interval, and the sample count it shows is the
\* number of samples processed in the epoch so far, never more than the
\* dataset holds.
ReportShowsSamplesProcessed ==
    (loaderPass.loader = "train" /\ Len(loaderPass.batches) >= 1) =>
        /\ report.kind = "report" <=>
               (Len(loaderPass.batches) - 1) % args.log_interval = 0
        /\ report.kind = "report" =>
              /\ report.batch_idx = Len(loaderPass.batches) - 1
              /\ report.samples = processed
              /\ report.samples <= report.total

\* C10: a train.csv of at least one row leaves a validation partition of at
\* least one row, so test() never divides by zero; the train partition is
\* non-empty exactly from two rows on.
ValidationSetNonEmpty ==
    pc # "start" =>
        LET n == Len(train_csv.rows)
        IN  /\ n >= 1 => DatasetLen(test_set) >= 1
            /\ n >= 1 => err # "ZeroDivisionError"
            /\ DatasetLen(train_set) >= 1 <=> n >= 2

\* Both evaluation reports of a two-epoch run on a table of a single row.
SingleRowEvaluated ==
    /\ Len(train_csv.rows) = 1
    /\ DatasetLen(train_set) = 0
    /\ completed.test = 2
    /\ accuracy.kind = "accuracy"

\* The outcome of a direct call dataset[item].
CallReturned == pc = "returned" /\ getArgs.kind = "call"

CallLength == DatasetLen(getArgs.ds)

CallPixels ==
    IF getArgs.class = "PandasImageDataset"
    THEN getArgs.ds.ncols - 1 ELSE getArgs.ds.ncols

\* C6 as stated: dataset[i] raises IndexError for every i outside
\* [0, length), negative i included, and returns a sample only inside.
GetFailsOutsideZeroToLength ==
    CallReturned =>
        /\ (getArgs.item < 0 \/ getArgs.item >= CallLength)
               => getResult.status = "IndexError"
        /\ getResult.status = "ok"
               => (getArgs.item >= 0 /\ getArgs.item < CallLength)

\* C6: dataset[i] raises IndexError exactly for i outside [-length, length);
\* inside, i >= 0 addresses row i and i < 0 addresses row length + i.
GetFailsOutsideSignedRange ==
    CallReturned =>
        /\ getResult.status = "IndexError" <=>
               (getArgs.item < 0 - CallLength \/ getArgs.item >= CallLength)
        /\ getResult.status = "ok" =>
               getResult.image.id =
                   (IF getArgs.item >= 0 THEN getArgs.item + 1
                    ELSE CallLength + getArgs.item + 1)

\* A negative index that returned a sample.
NegativeIndexReturned ==
    /\ CallReturned
    /\ getArgs.item = 0 - 1
    /\ CallLength = 3
    /\ getResult.status = "ok"

\* C7: on a table whose rows do not hold exactly 784 pixel values, getting
\* an existing row ends in the reshape error and returns no sample; a sample
\* of the labeled dataset has its pixels from columns 1..784 and its label
\* from column 0.
WrongWidthNeverDecodes ==
    CallReturned =>
        /\ (CallPixels # PixelCount /\ getResult.status # "IndexError")
               => getResult.status = "ValueError"
        /\ getResult.status = "ok" => CallPixels = PixelCount
        /\ (getResult.status = "ok" /\ getArgs.class = "PandasImageDataset") =>
              /\ getResult.image.firstCol = 1
              /\ getResult.image.lastCol = 784
              /\ getResult.labelCol = 0
              /\ getResult.label =
                     getArgs.ds.rows[RowPosition(getArgs.item, CallLength) + 1].label

\* A labeled row one pixel short, rejected.
ShortRowRejected ==
    /\ CallReturned
    /\ getArgs.class = "PandasImageDataset"
    /\ getArgs.ds.ncols = PixelCount
    /\ getArgs.item = 0
    /\ getResult.status = "ValueError"

====
